---- MODULE Spec2Model ----
(***************************************************************************)
(* Model of the songs/users API: the relational store (MySQL tables songs  *)
(* and businesses), the document store (MongoDB collection users), and the *)
(* request handlers of api/songs.js (src/unnamed/part_000) and             *)
(* api/users.js.  Every request is a process; each store operation is one  *)
(* atomic step that either succeeds or fails (err / rejected promise).     *)
(***************************************************************************)
EXTENDS Integers, Sequences, FiniteSets, TLC

\* ------------------------------------------------------------------ bounds

\* Number of requests handled in one behaviour.
MaxReqs == 2
\* Largest number of rows preloaded in the songs table for listing checks.
MaxCount == 31

\* --------------------------------------------------------------- constants

NoValue == "<undefined>"
NoId == 0

\* userID values clients use.  "tom" is the seed user; "ann" is not seeded.
UserIDs == {"tom", "ann"}

VARIABLES
  users,       \* MongoDB collection users, in natural (insertion) order
  songs,       \* MySQL table songs: set of rows
  nextId,      \* MySQL AUTO_INCREMENT counter of table songs
  businesses,  \* MySQL table businesses: set of rows
  issued,      \* userIDs for which a token has been issued to a client
  reqs         \* the requests, in order of arrival

vars == <<users, songs, nextId, businesses, issued, reqs>>

\* ----------------------------------------------------------- pure helpers

\* bcrypt.hash(password, 8): a digest from which only compare() can tell the
\* password.
Hash(p) == <<"$2a$08$", p>>

\* bcrypt.compare(s, hash): "throw" on a non-string hash (Illegal arguments),
\* otherwise whether hash was made from s.
Compare(s, hash) ==
  IF hash = <<>> THEN "throw"
  ELSE IF hash = Hash(s) THEN "true" ELSE "false"

\* The document db-init inserts: no password field, no songs field.
SeedUser == [userID |-> "tom", password |-> <<>>, songs |-> <<>>]

\* The indexes of the documents matching { userID: userID }.
Matching(userID) == {i \in 1..Len(users) : users[i].userID = userID}

Min(S) == CHOOSE x \in S : \A y \in S : x <= y

\* getUserByID with the projection left out.
getUserByID_NoProjection(userID, includePassword) ==
  IF Matching(userID) = {} THEN <<>>
  ELSE <<users[Min(Matching(userID))]>>

\* getUserByID: results[0] of find({userID}).project(...).toArray(), as a
\* sequence of length 0 (undefined) or 1.
getUserByID(userID, includePassword) ==
  IF Matching(userID) = {} THEN <<>>
  ELSE LET doc == users[Min(Matching(userID))]
       IN  <<IF includePassword THEN doc ELSE [doc EXCEPT !.password = <<>>]>>

\* addSongToUser with $set in place of $push: the list is overwritten.
addSongToUser_Set(songID, userID) ==
  IF Matching(userID) = {} THEN users
  ELSE LET i == Min(Matching(userID))
       IN  [users EXCEPT ![i].songs = <<songID>>]

\* addSongToUser with the filter left out and updateMany: every document
\* gets the id.
addSongToUser_All(songID, userID) ==
  [u \in 1..Len(users) |-> [users[u] EXCEPT !.songs = Append(@, songID)]]

\* addSongToUser: updateOne({userID}, {$push: {songs: songID}}) updates the
\* first matching document, or none.
addSongToUser(songID, userID) ==
  IF Matching(userID) = {} THEN users
  ELSE LET i == Min(Matching(userID))
       IN  [users EXCEPT ![i].songs = Append(@, songID)]

\* validation.validateAgainstSchema(body, songSchema): every required field
\* is present.
validateAgainstSchema(body) ==
  body.ownerID # NoValue /\ body.name # NoValue

\* generateAuthToken(userID): a signed token whose subject is userID.
generateAuthToken(userID) == [kind |-> "valid", sub |-> userID]

\* requireAuthentication: the token's subject, or NoValue when the token is
\* absent or does not verify.
requireAuthentication(token) ==
  IF token.kind = "valid" THEN token.sub ELSE NoValue

\* ------------------------------------------------------------- pagination

numPerPage == 10

CeilDiv(a, b) == IF a % b = 0 THEN a \div b ELSE (a \div b) + 1

Max(a, b) == IF a >= b THEN a ELSE b

\* getSongsPage with Math.floor in place of Math.ceil.
getSongsPage_Floor(page, totalCount) ==
  LET lastPage == Max(totalCount \div numPerPage, 1)
      p1 == IF page < 1 THEN 1 ELSE page
      p2 == IF p1 > lastPage THEN lastPage ELSE p1
  IN  [pageNumber |-> p2, totalPages |-> lastPage, pageSize |-> numPerPage,
       totalCount |-> totalCount, offset |-> (p2 - 1) * numPerPage]

\* getSongsPage with the offset taken from the page before the upper clamp.
getSongsPage_RawOffset(page, totalCount) ==
  LET lastPage == Max(CeilDiv(totalCount, numPerPage), 1)
      p1 == IF page < 1 THEN 1 ELSE page
      p2 == IF p1 > lastPage THEN lastPage ELSE p1
  IN  [pageNumber |-> p2, totalPages |-> lastPage, pageSize |-> numPerPage,
       totalCount |-> totalCount, offset |-> (p1 - 1) * numPerPage]

\* getSongsPage: the page window (the rows are those at offset..offset+9).
getSongsPage(page, totalCount) ==
  LET lastPage == Max(CeilDiv(totalCount, numPerPage), 1)
      p1 == IF page < 1 THEN 1 ELSE page
      p2 == IF p1 > lastPage THEN lastPage ELSE p1
  IN  [pageNumber |-> p2, totalPages |-> lastPage, pageSize |-> numPerPage,
       totalCount |-> totalCount, offset |-> (p2 - 1) * numPerPage]

\* The links with <= in place of < in the first test.
Links_Leq(pageNumber, totalPages) ==
  (IF pageNumber <= totalPages THEN {"nextPage", "lastPage"} ELSE {})
  \cup (IF pageNumber > 1 THEN {"prevPage", "firstPage"} ELSE {})

\* The HATEOAS links of router.get('/'): the set of link names present.
Links(pageNumber, totalPages) ==
  (IF pageNumber < totalPages THEN {"nextPage", "lastPage"} ELSE {})
  \cup (IF pageNumber > 1 THEN {"prevPage", "firstPage"} ELSE {})

Digits == {"0", "1", "2", "3", "4", "5", "6", "7", "8", "9"}

DigitVal(c) ==
  CASE c = "0" -> 0 [] c = "1" -> 1 [] c = "2" -> 2 [] c = "3" -> 3
    [] c = "4" -> 4 [] c = "5" -> 5 [] c = "6" -> 6 [] c = "7" -> 7
    [] c = "8" -> 8 [] c = "9" -> 9

RECURSIVE DigitsValue(_, _)
\* The value of the longest prefix of digits of s, after acc.
DigitsValue(s, acc) ==
  IF s = <<>> \/ Head(s) \notin Digits THEN acc
  ELSE DigitsValue(Tail(s), 10 * acc + DigitVal(Head(s)))

\* parseInt(s) for a query string s given as a sequence of characters (<<>>
\* when the parameter is absent): an optional sign and the leading digits
\* (leading blanks and radix prefixes are not among the inputs used).
ParseInt(s) ==
  LET signed == s # <<>> /\ Head(s) \in {"-", "+"}
      body == IF signed THEN Tail(s) ELSE s
  IN  [nan |-> body = <<>> \/ Head(body) \notin Digits,
       n |-> IF signed /\ Head(s) = "-" THEN 0 - DigitsValue(body, 0)
             ELSE DigitsValue(body, 0)]

\* parseInt(req.query.page) || 1: NaN and 0 are falsy.
ParsePage(s) ==
  IF ParseInt(s).nan \/ ParseInt(s).n = 0 THEN 1 ELSE ParseInt(s).n

\* ---------------------------------------------------------------- requests

NoToken == [kind |-> "none", sub |-> NoValue]
BadToken == [kind |-> "bad", sub |-> NoValue]

NoPage == [pageNumber |-> 0, totalPages |-> 0, pageSize |-> 0,
           totalCount |-> 0, offset |-> 0]

\* A request as it arrives: nothing answered, no store touched.
NewReq(route) ==
  [route |-> route, pc |-> "start",
   userID |-> NoValue, ownerID |-> NoValue, name |-> NoValue,
   password |-> NoValue, id |-> NoId, token |-> NoToken, query |-> <<>>,
   user |-> NoValue, page |-> 0, count |-> 0,
   ops |-> 0, failed |-> FALSE,
   status |-> 0, error |-> "", outId |-> NoId, outToken |-> NoToken,
   outDocs |-> <<>>, outRows |-> {}, outPage |-> NoPage, links |-> {}]

\* res.status(s).json({error: e}): the request is answered and ends.
Respond(r, s, e) == [r EXCEPT !.pc = "done", !.status = s, !.error = e]

\* A store operation issued on behalf of r.
Op(r) == [r EXCEPT !.ops = @ + 1]

\* A store operation of r that failed: the promise chain's catch answers 500.
Fail(r) == [Respond(Op(r), 500, "StoreError") EXCEPT !.failed = TRUE]

Arrive(r) == /\ Len(reqs) < MaxReqs
             /\ reqs' = Append(reqs, r)

Step(i, r) == reqs' = [reqs EXCEPT ![i] = r]

At(i, route, pc) == reqs[i].route = route /\ reqs[i].pc = pc

\* ------------------------------------------------------------ POST /songs

\* The request bodies clients send to POST /songs.
SongBodies ==
  {[ownerID |-> "tom", name |-> "song", id |-> NoId],
   [ownerID |-> "ann", name |-> "song", id |-> NoId],
   [ownerID |-> "tom", name |-> NoValue, id |-> NoId],
   [ownerID |-> NoValue, name |-> "song", id |-> NoId],
   [ownerID |-> "tom", name |-> "song", id |-> 1]}

\* router.post('/'): the synchronous part, up to the owner lookup.
CreateStart ==
  \E body \in SongBodies :
    LET r == [NewReq("createSong") EXCEPT !.ownerID = body.ownerID, !.name = body.name,
                                          !.id = body.id]
    IN  /\ Arrive(IF validateAgainstSchema(body)
                  THEN [r EXCEPT !.pc = "getUser"]
                  ELSE Respond(r, 400, "InvalidBody"))
        /\ UNCHANGED <<users, songs, nextId, businesses, issued>>

\* The owner lookup with its result ignored: the insert always follows.
CreateGetUser_NoOwnerCheck(i) ==
  /\ At(i, "createSong", "getUser")
  /\ \/ Step(i, Fail(reqs[i]))
     \/ Step(i, [Op(reqs[i]) EXCEPT !.pc = "insert"])
  /\ UNCHANGED <<users, songs, nextId, businesses, issued>>

\* getUserByID(req.body.ownerID) resolves or rejects.
CreateGetUser(i) ==
  /\ At(i, "createSong", "getUser")
  /\ \/ Step(i, Fail(reqs[i]))
     \/ Step(i, IF getUserByID(reqs[i].ownerID, FALSE) # <<>>
                THEN [Op(reqs[i]) EXCEPT !.pc = "insert"]
                ELSE Respond(Op(reqs[i]), 400, "OwnerNotFound"))
  /\ UNCHANGED <<users, songs, nextId, businesses, issued>>

\* The row insertNewSong inserts: the schema's fields, id assigned by the
\* store (song.id = null).
SongRow(r, id) == [id |-> id, ownerID |-> r.ownerID, name |-> r.name]

\* The insert with de-duplication: a row with the same fields is reused.
CreateInsert_Dedup(i) ==
  /\ At(i, "createSong", "insert")
  /\ \/ /\ Step(i, Fail(reqs[i]))
        /\ UNCHANGED <<songs, nextId>>
     \/ LET same == {s \in songs : s.ownerID = reqs[i].ownerID /\ s.name = reqs[i].name}
        IN  IF same # {}
            THEN /\ Step(i, [Op(reqs[i]) EXCEPT !.pc = "push",
                                                !.outId = (CHOOSE s \in same : TRUE).id])
                 /\ UNCHANGED <<songs, nextId>>
            ELSE /\ songs' = songs \cup {SongRow(reqs[i], nextId)}
                 /\ nextId' = nextId + 1
                 /\ Step(i, [Op(reqs[i]) EXCEPT !.pc = "push", !.outId = nextId])
  /\ UNCHANGED <<users, businesses, issued>>

\* The insert reporting an error after the row was written.
CreateInsert_WriteThenFail(i) ==
  /\ At(i, "createSong", "insert")
  /\ songs' = songs \cup {SongRow(reqs[i], nextId)}
  /\ nextId' = nextId + 1
  /\ \/ Step(i, Fail(reqs[i]))
     \/ Step(i, [Op(reqs[i]) EXCEPT !.pc = "push", !.outId = nextId])
  /\ UNCHANGED <<users, businesses, issued>>

\* The insert with an id that is not advanced: the next insert gets the same
\* id.
CreateInsert_StaleId(i) ==
  /\ At(i, "createSong", "insert")
  /\ \/ /\ Step(i, Fail(reqs[i]))
        /\ UNCHANGED <<songs, nextId>>
     \/ /\ songs' = songs \cup {SongRow(reqs[i], nextId)}
        /\ UNCHANGED nextId
        /\ Step(i, [Op(reqs[i]) EXCEPT !.pc = "push", !.outId = nextId])
  /\ UNCHANGED <<users, businesses, issued>>

\* insertNewSong: INSERT INTO songs.
CreateInsert(i) ==
  /\ At(i, "createSong", "insert")
  /\ \/ /\ Step(i, Fail(reqs[i]))
        /\ UNCHANGED <<songs, nextId>>
     \/ /\ songs' = songs \cup {SongRow(reqs[i], nextId)}
        /\ nextId' = nextId + 1
        /\ Step(i, [Op(reqs[i]) EXCEPT !.pc = "push", !.outId = nextId])
  /\ UNCHANGED <<users, businesses, issued>>

\* The append with a compensating delete of the row when it fails.
CreatePush_Rollback(i) ==
  /\ At(i, "createSong", "push")
  /\ \/ /\ Step(i, Fail(reqs[i]))
        /\ songs' = {s \in songs : s.id # reqs[i].outId}
        /\ UNCHANGED users
     \/ /\ users' = addSongToUser(reqs[i].outId, reqs[i].ownerID)
        /\ Step(i, Respond(Op(reqs[i]), 201, ""))
        /\ UNCHANGED songs
  /\ UNCHANGED <<nextId, businesses, issued>>

\* insertNewSong's then: addSongToUser(id, song.ownerID), and the 201.
CreatePush(i) ==
  /\ At(i, "createSong", "push")
  /\ \/ /\ Step(i, Fail(reqs[i]))
        /\ UNCHANGED users
     \/ /\ users' = addSongToUser(reqs[i].outId, reqs[i].ownerID)
        /\ Step(i, Respond(Op(reqs[i]), 201, ""))
  /\ UNCHANGED <<songs, nextId, businesses, issued>>

\* -------------------------------------------------------- GET /songs/{id}

\* router.get('/:businessID'): businessID = parseInt(req.params.businessID).
ReadStart ==
  \E id \in 1..2 :
    /\ Arrive([NewReq("readSong") EXCEPT !.id = id, !.pc = "getBusiness"])
    /\ UNCHANGED <<users, songs, nextId, businesses, issued>>

\* The rows of SELECT * FROM businesses WHERE id = ?.
BusinessRows(id) == {b \in businesses : b.id = id}

\* getBusinessByID: the first query.  No row: null goes down the chain and
\* the route calls next(), which ends in the not-found response.
ReadGetBusiness(i) ==
  /\ At(i, "readSong", "getBusiness")
  /\ \/ Step(i, Fail(reqs[i]))
     \/ Step(i, IF BusinessRows(reqs[i].id) # {}
                THEN [Op(reqs[i]) EXCEPT !.pc = "getReviews",
                                         !.outRows = BusinessRows(reqs[i].id)]
                ELSE Respond([Op(reqs[i]) EXCEPT !.outRows = {}], 404, "NotFound"))
  /\ UNCHANGED <<users, songs, nextId, businesses, issued>>

\* getBusinessByID: getReviewsByBusinessID, then getPhotosByBusinessID, each
\* resolving to an array, and the 200 with the row.
ReadGetReviews(i) ==
  /\ At(i, "readSong", "getReviews")
  /\ \/ Step(i, Fail([reqs[i] EXCEPT !.outRows = {}]))
     \/ Step(i, [Op(reqs[i]) EXCEPT !.pc = "getPhotos"])
  /\ UNCHANGED <<users, songs, nextId, businesses, issued>>

ReadGetPhotos(i) ==
  /\ At(i, "readSong", "getPhotos")
  /\ \/ Step(i, Fail([reqs[i] EXCEPT !.outRows = {}]))
     \/ Step(i, Respond(Op(reqs[i]), 200, ""))
  /\ UNCHANGED <<users, songs, nextId, businesses, issued>>

\* -------------------------------------------------------- PUT /songs/{id}

\* The request bodies clients send to PUT /songs/{id}.
UpdateBodies == {[ownerID |-> "ann", name |-> "song2"]}

\* replaceBusinessByID with a schema: UPDATE businesses SET ? WHERE id = ?
\* with the schema's fields of the body.
replaceBusinessByID(businessID, business) ==
  {IF b.id = businessID
   THEN [b EXCEPT !.ownerID = business.ownerID, !.name = business.name]
   ELSE b : b \in businesses}

\* The update route as it would run were businessSchema declared like
\* songSchema: the UPDATE, then 200 or the not-found response.
UpdateStart_SchemaDefined ==
  \E id \in 1..2, body \in UpdateBodies :
    LET r == [NewReq("updateSong") EXCEPT !.id = id, !.ownerID = body.ownerID,
                                          !.name = body.name]
    IN  /\ businesses' = replaceBusinessByID(id, body)
        /\ Arrive(IF BusinessRows(id) # {} THEN Respond(Op(r), 200, "")
                  ELSE Respond(Op(r), 404, "NotFound"))
        /\ UNCHANGED <<users, songs, nextId, issued>>

\* router.put('/:businessID'): validateAgainstSchema(req.body, businessSchema)
\* names businessSchema, which the file never declares, so the handler throws
\* a ReferenceError before any query and the dispatcher answers 500.
UpdateStart ==
  \E id \in 1..2, body \in UpdateBodies :
    LET r == [NewReq("updateSong") EXCEPT !.id = id, !.ownerID = body.ownerID,
                                          !.name = body.name]
    IN  /\ Arrive(Respond(r, 500, "ReferenceError"))
        /\ UNCHANGED <<users, songs, nextId, businesses, issued>>

\* ----------------------------------------------------- DELETE /songs/{id}

\* router.delete('/:businessID').
DeleteStart ==
  \E id \in 1..2 :
    /\ Arrive([NewReq("deleteSong") EXCEPT !.id = id, !.pc = "delete"])
    /\ UNCHANGED <<users, songs, nextId, businesses, issued>>

\* The delete that also pulls the id from the owners' lists.
DeleteRow_Pull(i) ==
  /\ At(i, "deleteSong", "delete")
  /\ \/ /\ Step(i, Fail(reqs[i]))
        /\ UNCHANGED <<businesses, users>>
     \/ /\ businesses' = businesses \ BusinessRows(reqs[i].id)
        /\ users' = [u \in 1..Len(users) |->
                       [users[u] EXCEPT !.songs = SelectSeq(@, LAMBDA x : x # reqs[i].id)]]
        /\ Step(i, IF BusinessRows(reqs[i].id) # {}
                   THEN Respond(Op(reqs[i]), 204, "")
                   ELSE Respond(Op(reqs[i]), 404, "NotFound"))
  /\ UNCHANGED <<songs, nextId, issued>>

\* deleteBusinessByID: DELETE FROM businesses WHERE id = ?, resolving to
\* affectedRows > 0; the route answers 204, or calls next() (not found).
DeleteRow(i) ==
  /\ At(i, "deleteSong", "delete")
  /\ \/ /\ Step(i, Fail(reqs[i]))
        /\ UNCHANGED businesses
     \/ /\ businesses' = businesses \ BusinessRows(reqs[i].id)
        /\ Step(i, IF BusinessRows(reqs[i].id) # {}
                   THEN Respond(Op(reqs[i]), 204, "")
                   ELSE Respond(Op(reqs[i]), 404, "NotFound"))
  /\ UNCHANGED <<users, songs, nextId, issued>>

\* ------------------------------------------------------------- GET /songs

\* The page parameters clients send: absent, not a number, and numbers.
PageQueries == {<<>>, <<"x">>, <<"0">>, <<"2">>, <<"-", "1">>}

ListStart ==
  \E q \in PageQueries :
    /\ Arrive([NewReq("listSongs") EXCEPT !.query = q, !.pc = "getCount"])
    /\ UNCHANGED <<users, songs, nextId, businesses, issued>>

\* The count query of a chain without its catch: a rejection is handled by
\* nobody and the request is left unanswered.
ListGetCount_NoCatch(i) ==
  /\ At(i, "listSongs", "getCount")
  /\ \/ Step(i, [Op(reqs[i]) EXCEPT !.pc = "rejected", !.failed = TRUE])
     \/ Step(i, [Op(reqs[i]) EXCEPT !.pc = "getPage",
                                   !.count = Cardinality(songs),
                                   !.page = ParsePage(reqs[i].query)])
  /\ UNCHANGED <<users, songs, nextId, businesses, issued>>

\* getSongsCount: SELECT COUNT(*) FROM songs.
ListGetCount(i) ==
  /\ At(i, "listSongs", "getCount")
  /\ \/ Step(i, Fail(reqs[i]))
     \/ Step(i, [Op(reqs[i]) EXCEPT !.pc = "getPage",
                                   !.count = Cardinality(songs),
                                   !.page = ParsePage(reqs[i].query)])
  /\ UNCHANGED <<users, songs, nextId, businesses, issued>>

\* getSongsPage's query, and the route's link generation and 200.
ListGetPage(i) ==
  /\ At(i, "listSongs", "getPage")
  /\ \/ Step(i, Fail(reqs[i]))
     \/ LET info == getSongsPage(reqs[i].page, reqs[i].count)
        IN  Step(i, Respond([Op(reqs[i]) EXCEPT
                               !.outPage = info,
                               !.links = Links(info.pageNumber, info.totalPages)],
                            200, ""))
  /\ UNCHANGED <<users, songs, nextId, businesses, issued>>

\* ------------------------------------------------------------- POST /users

\* validateUserObject: userID, name, email and password are all given.
validateUserObject(body) ==
  body.userID # NoValue /\ body.name # NoValue /\ body.password # NoValue

UserBodies ==
  {[userID |-> "ann", name |-> "n", password |-> "pw1"],
   [userID |-> "tom", name |-> "n", password |-> "pw1"],
   [userID |-> "ann", name |-> "n", password |-> NoValue]}

\* router.post('/'): validation, then bcrypt.hash.
UserStart ==
  \E body \in UserBodies :
    LET r == [NewReq("createUser") EXCEPT !.userID = body.userID, !.name = body.name,
                                          !.password = body.password]
    IN  /\ Arrive(IF validateUserObject(body)
                  THEN [r EXCEPT !.pc = "insertOne"]
                  ELSE Respond(r, 400, "InvalidBody"))
        /\ UNCHANGED <<users, songs, nextId, businesses, issued>>

\* insertNewUser: usersCollection.insertOne(userDocument), and the 201.
UserInsert(i) ==
  /\ At(i, "createUser", "insertOne")
  /\ \/ /\ Step(i, Fail(reqs[i]))
        /\ UNCHANGED users
     \/ /\ users' = Append(users, [userID |-> reqs[i].userID,
                                    password |-> Hash(reqs[i].password),
                                    songs |-> <<>>])
        /\ Step(i, Respond([Op(reqs[i]) EXCEPT !.outId = Len(users) + 1], 201, ""))
  /\ UNCHANGED <<songs, nextId, businesses, issued>>

\* ------------------------------------------------------- POST /users/login

LoginBodies ==
  {[userID |-> "ann", password |-> "pw1"], [userID |-> "ann", password |-> "pw2"],
   [userID |-> "tom", password |-> "pw1"],
   [userID |-> NoValue, password |-> "pw1"], [userID |-> "ann", password |-> NoValue]}

\* router.post('/login'): the check that userID and password are given.
LoginStart ==
  \E body \in LoginBodies :
    LET r == [NewReq("login") EXCEPT !.userID = body.userID, !.password = body.password]
    IN  /\ Arrive(IF body.userID # NoValue /\ body.password # NoValue
                  THEN [r EXCEPT !.pc = "getUser"]
                  ELSE Respond(r, 400, "MissingCredentials"))
        /\ UNCHANGED <<users, songs, nextId, businesses, issued>>

\* The chain after getUserByID(userID, true) resolved to found: compare,
\* generateAuthToken, respond; a thrown error is not 401 and answers 500.
LoginCheck(r, found) ==
  IF found = <<>> THEN Respond(r, 401, "InvalidCredentials")
  ELSE LET ok == Compare(r.password, found[1].password)
       IN  IF ok = "throw" THEN Respond(r, 500, "StoreError")
           ELSE IF ok = "true"
                THEN Respond([r EXCEPT !.outToken = generateAuthToken(r.userID)], 200, "")
                ELSE Respond(r, 401, "InvalidCredentials")

LoginGetUser(i) ==
  /\ At(i, "login", "getUser")
  /\ \/ /\ Step(i, Fail(reqs[i]))
        /\ UNCHANGED issued
     \/ LET r == LoginCheck(Op(reqs[i]), getUserByID(reqs[i].userID, TRUE))
        IN  /\ Step(i, r)
            /\ issued' = IF r.status = 200 THEN issued \cup {r.outToken.sub} ELSE issued
  /\ UNCHANGED <<users, songs, nextId, businesses>>

\* -------------------------------------------------- GET /users/{userID}...

\* The tokens a client can present: none, one that does not verify, or one
\* that was issued.
Tokens == {NoToken, BadToken} \cup {generateAuthToken(u) : u \in issued}

\* The profile route with the self-access check after the fetch.
ProfileStart_FetchFirst ==
  \E token \in Tokens, userID \in UserIDs :
    LET r == [NewReq("getUser") EXCEPT !.token = token, !.userID = userID,
                                       !.user = requireAuthentication(token)]
    IN  /\ Arrive(IF r.user = NoValue THEN Respond(r, 401, "Unauthenticated")
                  ELSE IF r.user # r.userID THEN Respond(Op(r), 403, "Forbidden")
                  ELSE [r EXCEPT !.pc = "getUser"])
        /\ UNCHANGED <<users, songs, nextId, businesses, issued>>

\* The profile route with the self-access check before the middleware.
ProfileStart_CheckFirst ==
  \E token \in Tokens, userID \in UserIDs :
    LET r == [NewReq("getUser") EXCEPT !.token = token, !.userID = userID,
                                       !.user = requireAuthentication(token)]
    IN  /\ Arrive(IF r.user # r.userID THEN Respond(r, 403, "Forbidden")
                  ELSE IF r.user = NoValue THEN Respond(r, 401, "Unauthenticated")
                  ELSE [r EXCEPT !.pc = "getUser"])
        /\ UNCHANGED <<users, songs, nextId, businesses, issued>>

\* router.get('/:userID', requireAuthentication, ...): the middleware, then
\* the self-access check.
ProfileStart ==
  \E token \in Tokens, userID \in UserIDs :
    LET r == [NewReq("getUser") EXCEPT !.token = token, !.userID = userID,
                                       !.user = requireAuthentication(token)]
    IN  /\ Arrive(IF r.user = NoValue THEN Respond(r, 401, "Unauthenticated")
                  ELSE IF r.user # r.userID THEN Respond(r, 403, "Forbidden")
                  ELSE [r EXCEPT !.pc = "getUser"])
        /\ UNCHANGED <<users, songs, nextId, businesses, issued>>

ProfileGetUser(i) ==
  /\ At(i, "getUser", "getUser")
  /\ \/ Step(i, Fail(reqs[i]))
     \/ LET found == getUserByID(reqs[i].userID, FALSE)
        IN  Step(i, IF found # <<>>
                    THEN Respond([Op(reqs[i]) EXCEPT !.outDocs = found], 200, "")
                    ELSE Respond(Op(reqs[i]), 404, "NotFound"))
  /\ UNCHANGED <<users, songs, nextId, businesses, issued>>

\* Tables reviews and playlist, which no handler of these files writes.
reviews == {[id |-> 1, userid |-> "tom"]}
playlist == {[id |-> 1, userid |-> "tom"]}

SubRoutes == {"getUserSongs", "getUserReviews", "getUserPlaylists"}

\* getSongByOwnerID, getReviewsByUserID, getPlaylistsByUserID: the rows of
\* the route's table that belong to userID.
RowsOf(route, userID) ==
  CASE route = "getUserSongs" -> {s \in songs : s.ownerID = userID}
    [] route = "getUserReviews" -> {[id |-> x.id, ownerID |-> x.userid, name |-> "review"] : x \in {y \in reviews : y.userid = userID}}
    [] route = "getUserPlaylists" -> {[id |-> x.id, ownerID |-> x.userid, name |-> "playlist"] : x \in {y \in playlist : y.userid = userID}}

\* router.get('/:userID/songs' | '/reviews' | '/playlists',
\* requireAuthentication, ...): the middleware, then the handler.
SubStart ==
  \E route \in SubRoutes, token \in Tokens, userID \in UserIDs :
    LET r == [NewReq(route) EXCEPT !.token = token, !.userID = userID,
                                   !.user = requireAuthentication(token)]
    IN  /\ Arrive(IF r.user = NoValue THEN Respond(r, 401, "Unauthenticated")
                  ELSE [r EXCEPT !.pc = "query"])
        /\ UNCHANGED <<users, songs, nextId, businesses, issued>>

SubQuery(i) ==
  /\ reqs[i].route \in SubRoutes /\ reqs[i].pc = "query"
  /\ \/ Step(i, Fail(reqs[i]))
     \/ Step(i, Respond([Op(reqs[i]) EXCEPT
                           !.outRows = RowsOf(reqs[i].route, reqs[i].userID)],
                        200, ""))
  /\ UNCHANGED <<users, songs, nextId, businesses, issued>>

\* ------------------------------------------------------------ the system

\* A user document insertNewUser made: ann, registered with password pw1.
AnnUser == [userID |-> "ann", password |-> Hash("pw1"), songs |-> <<>>]

\* The stores when the server starts: the seeded users collection, with or
\* without a user who registered during an earlier run; an empty songs
\* table; a businesses table with or without a row.
Init ==
  /\ users \in {<<SeedUser>>, <<SeedUser, AnnUser>>}
  /\ songs = {}
  /\ nextId = 1
  /\ businesses \in SUBSET {[id |-> 1, ownerID |-> "tom", name |-> "biz"]}
  /\ issued = {}
  /\ reqs = <<>>

Next ==
  \/ CreateStart
  \/ \E i \in 1..Len(reqs) : CreateGetUser(i)
  \/ \E i \in 1..Len(reqs) : CreateInsert(i)
  \/ \E i \in 1..Len(reqs) : CreatePush(i)
  \/ ReadStart
  \/ \E i \in 1..Len(reqs) : ReadGetBusiness(i)
  \/ \E i \in 1..Len(reqs) : ReadGetReviews(i)
  \/ \E i \in 1..Len(reqs) : ReadGetPhotos(i)
  \/ ListStart
  \/ \E i \in 1..Len(reqs) : ListGetCount(i)
  \/ \E i \in 1..Len(reqs) : ListGetPage(i)
  \/ UserStart
  \/ \E i \in 1..Len(reqs) : UserInsert(i)
  \/ LoginStart
  \/ \E i \in 1..Len(reqs) : LoginGetUser(i)
  \/ ProfileStart
  \/ \E i \in 1..Len(reqs) : ProfileGetUser(i)
  \/ SubStart
  \/ \E i \in 1..Len(reqs) : SubQuery(i)
  \/ UpdateStart
  \/ DeleteStart
  \/ \E i \in 1..Len(reqs) : DeleteRow(i)

Spec == Init /\ [][Next]_vars

\* ------------------------------------------------- the listing route alone

\* The page parameters of the listing check: absent, not numbers, and the
\* numbers -9..9 and 10..29, 90..99.
WideQueries ==
  {<<>>, <<"x">>, <<"3", "x">>, <<"-">>, <<"+", "2">>}
  \cup {<<d>> : d \in Digits}
  \cup {<<"-", d>> : d \in Digits}
  \cup {<<d1, d2>> : d1 \in {"1", "2", "9"}, d2 \in Digits}

\* A songs table of n rows, all created by tom.
SongsOf(n) == {[id |-> k, ownerID |-> "tom", name |-> "song"] : k \in 1..n}

InitPage ==
  /\ \E n \in 0..MaxCount :
       /\ songs = SongsOf(n)
       /\ nextId = n + 1
       /\ users = <<[SeedUser EXCEPT !.songs = [k \in 1..n |-> k]]>>
  /\ businesses = {}
  /\ issued = {}
  /\ reqs = <<>>

PageStart ==
  \E q \in WideQueries :
    /\ reqs = <<>>
    /\ reqs' = <<[NewReq("listSongs") EXCEPT !.query = q, !.pc = "getCount"]>>
    /\ UNCHANGED <<users, songs, nextId, businesses, issued>>

NextPage ==
  \/ PageStart
  \/ \E i \in 1..Len(reqs) : ListGetCount(i)
  \/ \E i \in 1..Len(reqs) : ListGetPage(i)

SpecPage == InitPage /\ [][NextPage]_vars

\* ------------------------------------ the promise chains, run to their end

\* The routes whose handlers are promise chains over the two stores: create,
\* login, profile read and listing.
LiveRoutes == {"createSong", "login", "getUser", "listSongs"}

\* The next callback of request i's promise chain: the store operation it
\* waits for succeeds or fails, and the chain's then or catch runs.
Handle(i) ==
  /\ i \in 1..Len(reqs)
  /\ \/ CreateGetUser(i)
     \/ CreateInsert(i)
     \/ CreatePush(i)
     \/ LoginGetUser(i)
     \/ ProfileGetUser(i)
     \/ ListGetCount(i)
     \/ ListGetPage(i)

NextLive ==
  \/ CreateStart
  \/ LoginStart
  \/ ProfileStart
  \/ ListStart
  \/ \E i \in 1..MaxReqs : Handle(i)

\* Every store operation issued eventually succeeds or fails, so the callback
\* waiting for it eventually runs; clients need not send anything.
Fairness == \A i \in 1..MaxReqs : WF_vars(Handle(i))

SpecLive == Init /\ [][NextLive]_vars /\ Fairness

\* ------------------------------------------------------------------ claims

Reqs == 1..Len(reqs)

IsDone(i) == reqs[i].pc = "done"

\* The ids in the owned-resource list of the document the store finds for
\* userID.
OwnedBy(userID) ==
  IF Matching(userID) = {} THEN {}
  ELSE LET l == users[Min(Matching(userID))].songs IN {l[k] : k \in 1..Len(l)}

\* How many times id occurs in the lists of all user documents.
Occurrences(id) ==
  Cardinality(UNION {{<<u, k>> : k \in {x \in 1..Len(users[u].songs) : users[u].songs[x] = id}} :
                       u \in 1..Len(users)})

\* A create request that answered 201 with id.
Created(c, id) ==
  reqs[c].route = "createSong" /\ reqs[c].status = 201 /\ reqs[c].outId = id

\* C1: whenever POST /songs has answered success with an id, a row with that
\* id exists in the songs table, the id is in the owner's list, and a
\* read-by-id (GET /songs/{id}) whose queries succeed returns that row.
CE_C1 ==
  /\ [](\A c \in Reqs : reqs[c].route = "createSong" /\ reqs[c].status = 201 =>
          /\ \E s \in songs : s.id = reqs[c].outId
          /\ reqs[c].outId \in OwnedBy(reqs[c].ownerID))
  /\ [][\A i \in Reqs :
          (/\ At(i, "readSong", "getBusiness")
           /\ reqs'[i].pc # "getBusiness"
           /\ ~reqs'[i].failed
           /\ \E c \in Reqs : Created(c, reqs[i].id))
          => /\ reqs'[i].status # 404
             /\ reqs'[i].outRows = {s \in songs : s.id = reqs[i].id}]_vars

\* C2: a valid creation payload whose ownerID matches no user document when
\* the owner lookup runs is answered 400 (unknown owner), and the request
\* issues no other store operation: no row is inserted, no document changed.
Thm_C2 ==
  /\ [][\A i \in Reqs :
          (/\ At(i, "createSong", "getUser")
           /\ reqs'[i].pc # "getUser"
           /\ ~reqs'[i].failed
           /\ Matching(reqs[i].ownerID) = {})
          => /\ reqs'[i].pc = "done"
             /\ reqs'[i].status = 400
             /\ reqs'[i].error = "OwnerNotFound"
             /\ songs' = songs /\ users' = users]_vars
  /\ [](\A i \in Reqs : reqs[i].error = "OwnerNotFound" =>
          IsDone(i) /\ reqs[i].status = 400 /\ reqs[i].ops = 1 /\ reqs[i].outId = NoId)
  /\ [][\A i \in Reqs : IsDone(i) => reqs'[i] = reqs[i]]_vars

Wit_C2 ==
  \E i \in Reqs : /\ reqs[i].route = "createSong" /\ reqs[i].error = "OwnerNotFound"
                  /\ songs = {} /\ reqs[i].ownerID = "ann"

PerUserRoutes == {"getUser"} \cup SubRoutes

\* C3: a per-user read made with a valid token of acting user a for target
\* user t is answered 200 only when a = t; when a # t it is answered 403 and
\* carries no data of t.
CE_C3 ==
  \A i \in Reqs :
    (reqs[i].route \in PerUserRoutes /\ IsDone(i) /\ reqs[i].token.kind = "valid") =>
      /\ reqs[i].status = 200 => reqs[i].user = reqs[i].userID
      /\ reqs[i].user # reqs[i].userID =>
           reqs[i].status = 403 /\ reqs[i].outRows = {} /\ reqs[i].outDocs = <<>>

\* C4: when the ownership append fails after the insert succeeded, the
\* request ends with 500, the inserted row stays in the songs table, its id
\* is in no user's list, and the request issued no store operation after the
\* failed append.
Thm_C4 ==
  \A i \in Reqs :
    (reqs[i].route = "createSong" /\ reqs[i].failed /\ reqs[i].outId # NoId) =>
      /\ IsDone(i) /\ reqs[i].status = 500
      /\ \E s \in songs : s.id = reqs[i].outId /\ s.ownerID = reqs[i].ownerID
      /\ Occurrences(reqs[i].outId) = 0
      /\ reqs[i].ops = 3

Wit_C4 ==
  \E i \in Reqs :
    /\ reqs[i].route = "createSong" /\ reqs[i].failed /\ reqs[i].outId # NoId
    /\ reqs[i].status = 500
    /\ \E j \in Reqs : j # i /\ IsDone(j) /\ j > i

\* A create request whose body is valid, whose owner was found and whose
\* store operations all succeeded.
CleanCreate(i) ==
  /\ reqs[i].route = "createSong" /\ IsDone(i) /\ ~reqs[i].failed
  /\ reqs[i].error \notin {"InvalidBody", "OwnerNotFound"}

\* C5: two creation requests by the same existing owner, however they
\* interleave, both answer 201 with distinct ids when no store operation
\* fails, and once both are done each id is in the owner's list exactly once.
Thm_C5 ==
  \A i, j \in Reqs :
    (i # j /\ CleanCreate(i) /\ CleanCreate(j) /\ reqs[i].ownerID = reqs[j].ownerID) =>
      /\ reqs[i].status = 201 /\ reqs[j].status = 201
      /\ reqs[i].outId # reqs[j].outId
      /\ {reqs[i].outId, reqs[j].outId} \subseteq OwnedBy(reqs[i].ownerID)
      /\ Occurrences(reqs[i].outId) = 1 /\ Occurrences(reqs[j].outId) = 1

\* Both done, the appends in the opposite order of the inserts.
Wit_C5 ==
  \E i, j \in Reqs :
    /\ i # j /\ CleanCreate(i) /\ CleanCreate(j)
    /\ reqs[i].ownerID = "tom" /\ reqs[j].ownerID = "tom"
    /\ reqs[i].outId = 1 /\ reqs[j].outId = 2
    /\ users[1].songs = <<2, 1>>

\* C6 as stated: every request rejected with 400 (invalid body, missing
\* credentials), 401 or 403 is rejected before any store operation is issued
\* for it.
CE_C6 ==
  \A i \in Reqs :
    (IsDone(i) /\ (reqs[i].error \in {"InvalidBody", "MissingCredentials"}
                   \/ reqs[i].status \in {401, 403})) => reqs[i].ops = 0

\* C6 amended: every request rejected for an invalid body, missing
\* credentials, an absent or invalid token (401) or a foreign target (403) is
\* rejected before any store operation; the login's 401 for invalid
\* credentials comes after exactly one read of the users collection.
Thm_C6 ==
  \A i \in Reqs :
    /\ (IsDone(i) /\ reqs[i].error \in {"InvalidBody", "MissingCredentials",
                                        "Unauthenticated", "Forbidden"})
         => reqs[i].ops = 0 /\ reqs[i].status \in {400, 401, 403}
    /\ (IsDone(i) /\ reqs[i].status \in {401, 403} /\ reqs[i].ops # 0)
         => reqs[i].route = "login" /\ reqs[i].error = "InvalidCredentials"
            /\ reqs[i].ops = 1

\* A foreign target refused after a login that read the users collection.
Wit_C6 ==
  /\ \E i \in Reqs : /\ reqs[i].error = "Forbidden" /\ reqs[i].status = 403
                     /\ reqs[i].user = "ann" /\ reqs[i].userID = "tom"
  /\ \E i \in Reqs : reqs[i].route = "login" /\ reqs[i].ops = 1

\* C7: a per-user read with an absent or invalid token is answered 401
\* whatever the target is, before the self-access check (never 403) and
\* before any store query.
Thm_C7 ==
  \A i \in Reqs :
    (reqs[i].route \in PerUserRoutes /\ reqs[i].token.kind # "valid") =>
      /\ IsDone(i) /\ reqs[i].status = 401 /\ reqs[i].error = "Unauthenticated"
      /\ reqs[i].user = NoValue
      /\ reqs[i].ops = 0 /\ reqs[i].outRows = {} /\ reqs[i].outDocs = <<>>

Wit_C7 ==
  /\ \E i \in Reqs : /\ reqs[i].route = "getUser" /\ reqs[i].token = BadToken
                     /\ reqs[i].userID = "tom" /\ reqs[i].status = 401
  /\ \E i \in Reqs : /\ reqs[i].route = "getUserSongs" /\ reqs[i].token = NoToken
                     /\ reqs[i].userID = "ann" /\ reqs[i].status = 401

\* C8: for every totalCount >= 0 and requested page p, the listing returns
\* totalPages = max(ceil(totalCount / 10), 1) and the page number clamped
\* into 1..totalPages (1 below, totalPages above, p otherwise); a listing
\* whose queries succeed is answered 200 however far out of range p is.
Thm_C8 ==
  \A i \in Reqs :
    (reqs[i].route = "listSongs" /\ IsDone(i) /\ ~reqs[i].failed) =>
      LET w == reqs[i].outPage
          c == reqs[i].count
          q == ParseInt(reqs[i].query)
          p == IF q.nan THEN 1 ELSE q.n
      IN  /\ reqs[i].status = 200
          /\ c = Cardinality(songs) /\ w.totalCount = c /\ w.pageSize = 10
          /\ w.totalPages >= 1
          /\ 10 * w.totalPages >= c
          /\ w.totalPages = 1 \/ 10 * (w.totalPages - 1) < c
          /\ 1 <= w.pageNumber /\ w.pageNumber <= w.totalPages
          /\ p < 1 => w.pageNumber = 1
          /\ p > w.totalPages => w.pageNumber = w.totalPages
          /\ (1 <= p /\ p <= w.totalPages) => w.pageNumber = p

Wit_C8 ==
  \E i \in Reqs :
    /\ reqs[i].route = "listSongs" /\ reqs[i].status = 200
    /\ reqs[i].count = 25 /\ reqs[i].query = <<"9", "9">>
    /\ reqs[i].outPage.pageNumber = 3 /\ reqs[i].outPage.totalPages = 3

\* C9: in every page window returned, nextPage and lastPage are present iff
\* pageNumber < totalPages, prevPage and firstPage are present iff
\* pageNumber > 1, and there is no link when totalPages = 1.
Thm_C9 ==
  \A i \in Reqs :
    (reqs[i].route = "listSongs" /\ reqs[i].status = 200) =>
      LET w == reqs[i].outPage
          l == reqs[i].links
      IN  /\ "nextPage" \in l <=> w.pageNumber < w.totalPages
          /\ "lastPage" \in l <=> w.pageNumber < w.totalPages
          /\ "prevPage" \in l <=> w.pageNumber > 1
          /\ "firstPage" \in l <=> w.pageNumber > 1
          /\ w.totalPages = 1 => l = {}
          /\ l \subseteq {"nextPage", "lastPage", "prevPage", "firstPage"}

Wit_C9 ==
  /\ \E i \in Reqs :
       /\ reqs[i].status = 200 /\ reqs[i].outPage.pageNumber = 2
       /\ reqs[i].outPage.totalPages = 3
       /\ reqs[i].links = {"nextPage", "lastPage", "prevPage", "firstPage"}

\* C10: login answers 400 when userID or password is missing, 401 when no
\* user has that userID or the password does not verify against the user's
\* stored hash, and 200 with a token for the submitted userID only when the
\* user exists and the password verifies; no token is issued otherwise.
CE_C10 ==
  /\ \A i \in Reqs :
       (reqs[i].route = "login" /\ IsDone(i) /\ ~reqs[i].failed) =>
         LET given == reqs[i].userID # NoValue /\ reqs[i].password # NoValue
             found == getUserByID(reqs[i].userID, TRUE)
             verifies == found # <<>> /\ Compare(reqs[i].password, found[1].password) = "true"
         IN  /\ ~given => reqs[i].status = 400 /\ reqs[i].outToken = NoToken
             /\ (given /\ ~verifies) => reqs[i].status = 401 /\ reqs[i].outToken = NoToken
             /\ reqs[i].status = 200 =>
                  given /\ verifies /\ reqs[i].outToken = generateAuthToken(reqs[i].userID)
  /\ \A u \in issued :
       \E i \in Reqs : reqs[i].route = "login" /\ reqs[i].status = 200 /\ reqs[i].userID = u

\* C11: no response carries a password hash: getUserByID gives the password
\* field only when called with includePassword, the profile read answers
\* with the document without it, and the login answers with the token only.
Thm_C11 ==
  /\ \A u \in UserIDs :
       \A k \in 1..Len(getUserByID(u, FALSE)) : getUserByID(u, FALSE)[k].password = <<>>
  /\ \A i \in Reqs :
       /\ \A k \in 1..Len(reqs[i].outDocs) : reqs[i].outDocs[k].password = <<>>
       /\ reqs[i].route = "login" => reqs[i].outDocs = <<>> /\ reqs[i].outRows = {}

Wit_C11 ==
  \E i \in Reqs :
    /\ reqs[i].route = "getUser" /\ reqs[i].status = 200 /\ reqs[i].userID = "ann"
    /\ getUserByID("ann", TRUE)[1].password = Hash("pw1")
    /\ reqs[i].outDocs[1].userID = "ann" /\ reqs[i].outDocs[1].password = <<>>

\* A create request whose insert succeeded and whose append failed.
AppendFailed(i) ==
  reqs[i].route = "createSong" /\ reqs[i].failed /\ reqs[i].outId # NoId

\* The rows of songs with the domain fields of request i.
RowsLike(i) == {s \in songs : s.ownerID = reqs[i].ownerID /\ s.name = reqs[i].name}

\* C12: a create with the same payload as one whose append failed inserts a
\* second row with a new id: two rows with the same domain fields exist, no
\* row is reused.
Thm_C12 ==
  \A i, j \in Reqs :
    (/\ i # j /\ AppendFailed(i)
     /\ reqs[j].route = "createSong" /\ reqs[j].outId # NoId
     /\ reqs[j].ownerID = reqs[i].ownerID /\ reqs[j].name = reqs[i].name) =>
      /\ reqs[i].outId # reqs[j].outId
      /\ {reqs[i].outId, reqs[j].outId} \subseteq {s.id : s \in RowsLike(i)}
      /\ Cardinality(RowsLike(i)) >= 2

Wit_C12 ==
  \E i, j \in Reqs :
    /\ i < j /\ AppendFailed(i) /\ reqs[i].outId = 1
    /\ reqs[j].route = "createSong" /\ reqs[j].status = 201 /\ reqs[j].outId = 2
    /\ reqs[j].ownerID = reqs[i].ownerID /\ reqs[j].name = reqs[i].name
    /\ Cardinality(RowsLike(i)) = 2 /\ users[1].songs = <<2>>

\* C13: when the insert of a create fails, no row is added, no user document
\* changes, the request is answered 500 and issues nothing afterwards.
Thm_C13 ==
  /\ [][\A i \in Reqs :
          (At(i, "createSong", "insert") /\ reqs'[i].failed) =>
            /\ songs' = songs /\ users' = users
            /\ reqs'[i].pc = "done" /\ reqs'[i].status = 500
            /\ reqs'[i].outId = NoId]_vars
  /\ [](\A i \in Reqs :
          (reqs[i].route = "createSong" /\ reqs[i].failed /\ reqs[i].ops = 2) =>
            IsDone(i) /\ reqs[i].status = 500 /\ reqs[i].outId = NoId)
  /\ [][\A i \in Reqs : IsDone(i) => reqs'[i].ops = reqs[i].ops]_vars

Wit_C13 ==
  \E i \in Reqs :
    /\ reqs[i].route = "createSong" /\ reqs[i].failed /\ reqs[i].ops = 2
    /\ reqs[i].status = 500 /\ songs = {}
    /\ \A u \in 1..Len(users) : users[u].songs = <<>>

\* No row of the relational store has this id.
NoRow(id) == \A r \in songs \cup businesses : r.id # id

\* C14: an update or a delete of an id that has no row answers not found
\* (not an error, not a success) and leaves both stores unchanged.
CE_C14 ==
  /\ [][\A i \in 1..Len(reqs') :
          (i > Len(reqs) /\ reqs'[i].route = "updateSong" /\ NoRow(reqs'[i].id)) =>
            /\ reqs'[i].status \in {0, 404}
            /\ songs' = songs /\ businesses' = businesses /\ users' = users]_vars
  /\ [][\A i \in Reqs :
          (/\ At(i, "deleteSong", "delete") /\ reqs'[i].pc = "done"
           /\ ~reqs'[i].failed /\ NoRow(reqs[i].id)) =>
            /\ reqs'[i].status = 404
            /\ songs' = songs /\ businesses' = businesses /\ users' = users]_vars

\* C15: no two user documents have the same userID.
CE_C15 ==
  \A a, b \in 1..Len(users) : a # b => users[a].userID # users[b].userID

Deleted(id) ==
  \E d \in Reqs : reqs[d].route = "deleteSong" /\ reqs[d].status = 204 /\ reqs[d].id = id

\* C17: once the delete of an id has succeeded and no row has that id, no
\* step makes a row with that id exist again.
CE_C17 ==
  [][\A id \in 1..(MaxReqs + 1) :
       (Deleted(id) /\ NoRow(id)) => \A r \in songs' \cup businesses' : r.id # id]_vars

IsPrefix(a, b) == Len(a) <= Len(b) /\ \A k \in 1..Len(a) : a[k] = b[k]

\* C18: every step leaves each user's list a prefix of what it becomes, and
\* the steps of an update or a delete leave every user document unchanged.
Thm_C18 ==
  [][/\ Len(users) <= Len(users')
     /\ \A u \in 1..Len(users) :
          /\ users'[u].userID = users[u].userID
          /\ IsPrefix(users[u].songs, users'[u].songs)
     /\ (\E i \in Reqs : At(i, "deleteSong", "delete") /\ reqs'[i] # reqs[i])
          => users' = users
     /\ (Len(reqs') > Len(reqs) /\ reqs'[Len(reqs')].route = "updateSong")
          => users' = users]_vars

\* The id of a deleted record is still in its owner's list.
Wit_C18 ==
  /\ Deleted(1)
  /\ users[1].songs = <<1>>
  /\ businesses = {}

\* C19: the listing's row offset is (pageNumber - 1) * 10 for the clamped
\* pageNumber: never negative and, when there are rows, below totalCount.
Thm_C19 ==
  \A i \in Reqs :
    (reqs[i].route = "listSongs" /\ reqs[i].status = 200) =>
      LET w == reqs[i].outPage
      IN  /\ w.offset = (w.pageNumber - 1) * 10
          /\ w.offset >= 0
          /\ w.totalCount > 0 => w.offset < w.totalCount
          /\ w.totalCount = 0 => w.offset = 0

Wit_C19 ==
  \E i \in Reqs :
    /\ reqs[i].route = "listSongs" /\ reqs[i].status = 200
    /\ reqs[i].count = 21 /\ reqs[i].query = <<"9", "0">>
    /\ reqs[i].outPage.offset = 20

\* C20: every id in a user's list is the id of a row of songs owned by that
\* user, inserted by a create request of that owner which then appended it.
Thm_C20 ==
  \A u \in 1..Len(users) : \A k \in 1..Len(users[u].songs) :
    LET id == users[u].songs[k]
    IN  /\ \E s \in songs : s.id = id /\ s.ownerID = users[u].userID
        /\ \E i \in Reqs : /\ Created(i, id) /\ reqs[i].ownerID = users[u].userID
                           /\ reqs[i].ops = 3

Wit_C20 ==
  /\ Len(users) = 2 /\ users[1].songs = <<1>> /\ users[2].songs = <<2>>
  /\ \E i \in Reqs : Created(i, 2) /\ reqs[i].ownerID = "ann"

\* C21: every record id occurs at most once across the owned-resource lists
\* of all user documents: no id is appended twice and no id is in two users'
\* lists.
Thm_C21 ==
  \A u, v \in 1..Len(users) :
    \A k \in 1..Len(users[u].songs), l \in 1..Len(users[v].songs) :
      users[u].songs[k] = users[v].songs[l] => u = v /\ k = l

\* Two creates of different owners, appended in the opposite order of their
\* inserts, and both lists filled.
Wit_C21 ==
  /\ Len(users) = 2 /\ users[1].songs = <<2>> /\ users[2].songs = <<1>>
  /\ \E i, j \in Reqs : /\ i < j /\ Created(i, 2) /\ Created(j, 1)
                        /\ reqs[i].ownerID = "tom" /\ reqs[j].ownerID = "ann"

\* C22: provided each store operation eventually succeeds or fails, every
\* request of the create, login, profile-read and listing routes eventually
\* receives a response (however many requests arrive, a moment always comes
\* when all of them are answered), and receives exactly one: an answered
\* request is never answered again, and an unanswered one carries no status.
Thm_C22 ==
  /\ []<>(\A i \in Reqs : reqs[i].route \in LiveRoutes =>
             IsDone(i) /\ reqs[i].status \in {200, 201, 400, 401, 403, 404, 500})
  /\ [][\A i \in Reqs : IsDone(i) => reqs'[i] = reqs[i]]_vars
  /\ [](\A i \in Reqs : ~IsDone(i) => reqs[i].status = 0)

\* A create answered after its third store operation while a listing whose
\* count query failed was answered by the catch.
Wit_C22 ==
  \E i, j \in Reqs :
    /\ Created(i, 1) /\ reqs[i].ops = 3
    /\ reqs[j].route = "listSongs" /\ IsDone(j) /\ reqs[j].failed /\ reqs[j].ops = 1

====
